---- MODULE Spec2Model ----
(***************************************************************************)
(* A model of the conversational trade agent: the /chat endpoint           *)
(* (main.py), TradeAgent (agent_logic.py), PandasQueryEngine               *)
(* (pandas_query_engine.py), PandasAggregationEngine                       *)
(* (pandas_aggregation_engine.py) and the persona builder                  *)
(* (persona_logic.py).                                                     *)
(*                                                                         *)
(* Text that the code inspects character by character (questions, asset    *)
(* symbols, tags, classifier replies) is a sequence of one-character       *)
(* strings, so that lower(), strip(), replace() and the substring test     *)
(* `x in q` are computed as Python computes them.  Text that is only       *)
(* compared as a whole (Outcome, Buy/Sell, fixed messages) is a string.    *)
(***************************************************************************)
EXTENDS Integers, Sequences, FiniteSets, TLC

VARIABLES
    env,        \* what startup finds: credentials, the trade file, its trades
    started,    \* startup_event has run
    agent,      \* main.py global `agent`: TRUE when a TradeAgent exists
    df,         \* the DataFrame object shared by the agent and both engines
    persona,    \* TradeAgent.persona
    df0,        \* history: df at the end of TradeAgent.__init__
    persona0,   \* history: persona at the end of TradeAgent.__init__
    last,       \* the last /chat request and how it was answered
    call        \* the last direct call of an engine method (engine harness)

vars == <<env, started, agent, df, persona, df0, persona0, last, call>>

(***************************************************************************)
(* Bounds                                                                  *)
(***************************************************************************)
MaxTrades == 3
MaxLimit == 2

(***************************************************************************)
(* Characters and strings                                                  *)
(***************************************************************************)
\* The characters used, in ASCII order; upper case letters are 5..30 and the
\* matching lower case letters 31..56.
Ascii ==
    << "\n", " ", "-", ".",
       "A","B","C","D","E","F","G","H","I","J","K","L","M",
       "N","O","P","Q","R","S","T","U","V","W","X","Y","Z",
       "a","b","c","d","e","f","g","h","i","j","k","l","m",
       "n","o","p","q","r","s","t","u","v","w","x","y","z" >>

\* character -> its position in Ascii
OrdMap == [c \in {Ascii[i] : i \in 1..Len(Ascii)} |->
            CHOOSE i \in 1..Len(Ascii) : Ascii[i] = c]

Ord(c) == OrdMap[c]

\* character -> str.lower() of it
LowerMap == [c \in DOMAIN OrdMap |->
              IF OrdMap[c] \in 5..30 THEN Ascii[OrdMap[c] + 26] ELSE c]

LowerChar(c) == LowerMap[c]

\* str.lower()
LowerStr(s) == [i \in 1..Len(s) |-> LowerChar(s[i])]

\* str.replace(old, new) for single characters
ReplaceChar(s, old, new) == [i \in 1..Len(s) |-> IF s[i] = old THEN new ELSE s[i]]

\* the Python test `sub in s` on strings
Contains(sub, s) ==
    \E i \in 0..(Len(s) - Len(sub)) : SubSeq(s, i + 1, i + Len(sub)) = sub

Whitespace == {" ", "\n", "\t"}

\* str.strip(): drops leading and trailing whitespace, keeps inner whitespace
Strip(s) ==
    LET keep == {i \in 1..Len(s) : s[i] \notin Whitespace}
    IN  IF keep = {} THEN <<>>
        ELSE LET lo == CHOOSE i \in keep : \A j \in keep : i <= j
                 hi == CHOOSE i \in keep : \A j \in keep : i >= j
             IN  SubSeq(s, lo, hi)

\* s1, a space, s2
Join(s1, s2) == s1 \o <<" ">> \o s2

\* lexicographic order of strings (Python's < on str), used by Series.mode()
RECURSIVE StrLess(_, _)
StrLess(a, b) ==
    IF b = <<>> THEN FALSE
    ELSE IF a = <<>> THEN TRUE
    ELSE IF Ord(a[1]) # Ord(b[1]) THEN Ord(a[1]) < Ord(b[1])
    ELSE StrLess(Tail(a), Tail(b))

(***************************************************************************)
(* Trades                                                                  *)
(***************************************************************************)
ETH == <<"E","T","H">>
SOL == <<"S","O","L">>
BTC == <<"B","T","C">>

TagLongTerm  == <<"l","o","n","g","-","t","e","r","m">>
TagDipBuy    == <<"d","i","p","-","b","u","y">>
TagValue     == <<"V","a","l","u","e">>
TagSentiment == <<"S","e","n","t","i","m","e","n","t">>

\* The trades a trade file may hold.  Tags[1] is the primary strategy and
\* Tags[2] the style; trades 2 and 3, and trades 1 and 5, share a Date.
Pool ==
    << [id |-> 1, Asset |-> ETH, Side |-> "Buy",  Outcome |-> "Profit",
        Date |-> 1, Tags |-> <<TagLongTerm, TagValue>>],
       [id |-> 2, Asset |-> SOL, Side |-> "Sell", Outcome |-> "Loss",
        Date |-> 2, Tags |-> <<TagDipBuy, TagSentiment>>],
       [id |-> 3, Asset |-> ETH, Side |-> "Sell", Outcome |-> "Loss",
        Date |-> 2, Tags |-> <<TagLongTerm, TagSentiment>>],
       [id |-> 4, Asset |-> BTC, Side |-> "Buy",  Outcome |-> "Neutral",
        Date |-> 3, Tags |-> <<TagDipBuy, TagValue>>],
       [id |-> 5, Asset |-> BTC, Side |-> "Sell", Outcome |-> "Profit",
        Date |-> 1, Tags |-> <<TagLongTerm, TagSentiment>>] >>

\* rows of `s` whose index is in `m`, in index order: df[mask]
SelectRows(s, m) ==
    LET F[i \in 0..Len(s)] ==
            IF i = 0 THEN <<>>
            ELSE IF i \in m THEN Append(F[i - 1], s[i]) ELSE F[i - 1]
    IN  F[Len(s)]

\* the non-empty trade lists of at most MaxTrades trades, in file order
Stores ==
    { SelectRows(Pool, m) :
        m \in {x \in SUBSET (1..Len(Pool)) : Cardinality(x) \in 1..MaxTrades} }

Rows(s) == {s[i] : i \in 1..Len(s)}

(***************************************************************************)
(* Questions                                                               *)
(***************************************************************************)
W_trades   == <<"t","r","a","d","e","s">>
W_ETH      == <<"E","T","H">>
W_btc      == <<"b","t","c">>
W_sold     == <<"S","o","l","d">>
W_loss     == <<"l","o","s","s">>
W_won      == <<"w","o","n">>
W_value    == <<"v","a","l","u","e">>
W_longterm == <<"l","o","n","g"," ","t","e","r","m">>
W_dipbuy   == <<"d","i","p"," ","b","u","y">>
W_neutral  == <<"n","e","u","t","r","a","l">>
W_losses   == <<"T","e","l","l"," ","m","e"," ","a","b","o","u","t"," ",
                "y","o","u","r"," ","l","o","s","s","e","s">>

Questions ==
    { W_trades, W_ETH, W_sold, W_loss, W_won, W_value, W_longterm, W_dipbuy,
      Join(W_ETH, W_sold), Join(W_ETH, W_loss), Join(W_loss, W_won),
      Join(W_ETH, W_btc), Join(W_value, W_longterm), Join(W_btc, W_dipbuy),
      W_neutral, W_losses }

(***************************************************************************)
(* Python values                                                           *)
(***************************************************************************)
None == [t |-> "None"]
IntV(n) == [t |-> "int", n |-> n]
StrV(s) == [t |-> "str", s |-> s]
Table(rows) == [t |-> "DataFrame", rows |-> rows]

(***************************************************************************)
(* PandasQueryEngine._fallback_manual_parse                                *)
(***************************************************************************)
K_loss    == <<"l","o","s","s">>
K_lost    == <<"l","o","s","t">>
K_profit  == <<"p","r","o","f","i","t">>
K_win     == <<"w","i","n">>
K_won     == <<"w","o","n">>
K_neutral == <<"n","e","u","t","r","a","l">>
K_buy     == <<"b","u","y">>
K_bought  == <<"b","o","u","g","h","t">>
K_sell    == <<"s","e","l","l">>
K_sold    == <<"s","o","l","d">>

\* [asset for asset in df['Asset'].unique() if asset.lower() in q]
AssetsInQuery(s, q) ==
    {a \in {s[i].Asset : i \in 1..Len(s)} : Contains(LowerStr(a), q)}

\* [tag for tag in all_tags if tag.lower().replace('-', ' ') in q]
TagsInQuery(s, q) ==
    LET all_tags == UNION {{s[i].Tags[j] : j \in 1..Len(s[i].Tags)} : i \in 1..Len(s)}
    IN  {tg \in all_tags : Contains(ReplaceChar(LowerStr(tg), "-", " "), q)}

\* a tag test that accepts every trade
HasTagAlways(row, tags) == TRUE

\* any(t in tags for t in tags_in_query), for one row
HasTag(row, tags) == \E j \in 1..Len(row.Tags) : row.Tags[j] \in tags

\* final_mask &= cond, on sets of row indices
NarrowAssign(mask, cond) == cond

Narrow(mask, cond) == mask \cap cond

\* the outcome steps chained with elif: only the first matching one applies
FallbackMasksElif(s, user_query) ==
    LET q   == LowerStr(user_query)
        all == 1..Len(s)
        assets_in_query == AssetsInQuery(s, q)
        m1 == IF assets_in_query # {}
                THEN all \cap {i \in all : s[i].Asset \in assets_in_query}
                ELSE all
        m4 == IF Contains(K_loss, q) \/ Contains(K_lost, q)
                THEN m1 \cap {i \in all : s[i].Outcome = "Loss"}
              ELSE IF Contains(K_profit, q) \/ Contains(K_win, q)
                      \/ Contains(K_won, q)
                THEN m1 \cap {i \in all : s[i].Outcome = "Profit"}
              ELSE IF Contains(K_neutral, q)
                THEN m1 \cap {i \in all : s[i].Outcome = "Neutral"}
              ELSE m1
        m5 == IF Contains(K_buy, q) \/ Contains(K_bought, q)
                THEN m4 \cap {i \in all : s[i].Side = "Buy"} ELSE m4
        m6 == IF Contains(K_sell, q) \/ Contains(K_sold, q)
                THEN m5 \cap {i \in all : s[i].Side = "Sell"} ELSE m5
        tags_in_query == TagsInQuery(s, q)
        m7 == IF tags_in_query # {}
                THEN m6 \cap {i \in all : HasTag(s[i], tags_in_query)}
                ELSE m6
    IN  <<all, m1, m4, m4, m4, m5, m6, m7>>

\* final_mask after each of the seven steps, as the set of kept row indices:
\* <<start, asset, loss, profit, neutral, buy, sell, tags>>
FallbackMasks(s, user_query) ==
    LET q   == LowerStr(user_query)
        all == 1..Len(s)
        m0  == all
        assets_in_query == AssetsInQuery(s, q)
        m1 == IF assets_in_query # {}
                THEN Narrow(m0, {i \in all : s[i].Asset \in assets_in_query})
                ELSE m0
        m2 == IF Contains(K_loss, q) \/ Contains(K_lost, q)
                THEN Narrow(m1, {i \in all : s[i].Outcome = "Loss"}) ELSE m1
        m3 == IF Contains(K_profit, q) \/ Contains(K_win, q) \/ Contains(K_won, q)
                THEN Narrow(m2, {i \in all : s[i].Outcome = "Profit"}) ELSE m2
        m4 == IF Contains(K_neutral, q)
                THEN Narrow(m3, {i \in all : s[i].Outcome = "Neutral"}) ELSE m3
        m5 == IF Contains(K_buy, q) \/ Contains(K_bought, q)
                THEN Narrow(m4, {i \in all : s[i].Side = "Buy"}) ELSE m4
        m6 == IF Contains(K_sell, q) \/ Contains(K_sold, q)
                THEN Narrow(m5, {i \in all : s[i].Side = "Sell"}) ELSE m5
        tags_in_query == TagsInQuery(s, q)
        m7 == IF tags_in_query # {}
                THEN Narrow(m6, {i \in all : HasTag(s[i], tags_in_query)})
                ELSE m6
    IN  <<m0, m1, m2, m3, m4, m5, m6, m7>>

FallbackManualParse(s, user_query) ==
    SelectRows(s, FallbackMasks(s, user_query)[8])

(***************************************************************************)
(* The external text-generation service                                    *)
(***************************************************************************)
\* One call of model.generate_content(...) followed by response.text:
\* either it raises, or it yields a text.
SvcError == [err |-> TRUE]
SvcText(x) == [err |-> FALSE, text |-> x]

(***************************************************************************)
(* Query translator: _generate_pandas_code, _clean_llm_output              *)
(*                                                                         *)
(* A translator reply is a sequence of tokens: a backtick (BT), a          *)
(* whitespace                                                              *)
(* character, the word python of a code fence, or a whole pandas           *)
(* expression (which holds no backtick and no leading or trailing          *)
(* whitespace, so replace() and strip() act on it as on one character).    *)
(***************************************************************************)
BT == "<backtick>"

E_Profit    == "df[df['Outcome'] == 'Profit']"
E_Len       == "len(df)"
E_CountLoss == "len(df[df['Outcome'] == 'Loss'])"
E_KeyError  == "df[df['Ticker'] == 'ETH']"
E_Drop      == "df.drop(df.index[:1], inplace=True)"

TranslatorTexts ==
    { <<>>,
      <<" ">>,
      <<BT,BT,BT,"\n",BT,BT,BT>>,
      <<E_Profit>>,
      <<BT, E_Profit, BT>>,
      <<BT,BT,BT,"python","\n", E_Profit, "\n",BT,BT,BT>>,
      <<E_Len>>,
      <<" ", E_CountLoss, "\n">>,
      <<E_KeyError>>,
      <<E_Drop>> }

TranslatorOutcomes == {SvcError} \cup {SvcText(x) : x \in TranslatorTexts}

\* _clean_llm_output: every backtick removed, then strip()
CleanLlmOutput(llm_response) ==
    Strip(SelectSeq(llm_response, LAMBDA tok : tok # BT))

\* both engines' _generate_pandas_code: the cleaned reply, the empty string when the call raises
GeneratePandasCode(svc) ==
    IF svc.err THEN <<>> ELSE CleanLlmOutput(svc.text)

(***************************************************************************)
(* eval(pandas_code_str, ...) with df bound to self.df                     *)
(***************************************************************************)
\* [raised, val, df]: whether eval raised an Exception (the class both
\* engines catch), the value it returned, and the DataFrame object
\* afterwards.  E_Drop is an expression with an effect: it returns None and
\* removes the first row of the shared DataFrame.
Eval(code, s) ==
    IF Len(code) # 1
        THEN [raised |-> TRUE, val |-> None, df |-> s]          \* SyntaxError
    ELSE IF code[1] = E_Profit
        THEN [raised |-> FALSE, df |-> s,
              val |-> Table(SelectSeq(s, LAMBDA r : r.Outcome = "Profit"))]
    ELSE IF code[1] = E_Len
        THEN [raised |-> FALSE, df |-> s, val |-> IntV(Len(s))]
    ELSE IF code[1] = E_CountLoss
        THEN [raised |-> FALSE, df |-> s,
              val |-> IntV(Len(SelectSeq(s, LAMBDA r : r.Outcome = "Loss")))]
    ELSE IF code[1] = E_Drop
        THEN [raised |-> FALSE, val |-> None,
              df |-> IF s = <<>> THEN s ELSE Tail(s)]
    ELSE [raised |-> TRUE, val |-> None, df |-> s]              \* KeyError, NameError

(***************************************************************************)
(* PandasQueryEngine.query                                                 *)
(***************************************************************************)
DefaultLimit == 5

\* DataFrame.sort_values(by='Date'): the default sort is not stable, so rows
\* with equal Date may come out in any order.
RECURSIVE SortValues(_)
SortValues(rows) ==
    IF rows = {} THEN {<<>>}
    ELSE UNION { { <<r>> \o rest : rest \in SortValues(rows \ {r}) } :
                 r \in {x \in rows : \A y \in rows : x.Date <= y.Date} }

\* DataFrame.tail(n): the last n rows; for n < 0 all rows but the first -n
TailRowsAll(s, n) == s

\* DataFrame.head(n) in place of tail(n): the first n rows
TailRowsHead(s, n) == SubSeq(s, 1, IF n < Len(s) THEN n ELSE Len(s))

TailRows(s, n) ==
    IF n = 0 THEN <<>>
    ELSE IF n > 0 THEN SubSeq(s, IF n < Len(s) THEN Len(s) - n + 1 ELSE 1, Len(s))
    ELSE SubSeq(s, 1 - n, Len(s))

\* the possible outcomes of query(user_query, limit): whether it raised, the
\* records returned, the DataFrame object afterwards, the candidate, whether
\* eval raised, which branch supplied results_df, the service calls made
\* [raised, rows, df, code, evalRaised, path, calls]
QueryNoFallback(s, user_query, limit, svc) ==
    LET code == GeneratePandasCode(svc)
        ev   == IF code # <<>> THEN Eval(code, s)
                ELSE [raised |-> FALSE, val |-> None, df |-> s]
        results_df == IF ev.raised THEN Table(<<>>)
                      ELSE IF code = <<>> THEN Table(<<>>) ELSE ev.val
    IN  { [raised |-> FALSE, rows |-> TailRows(sorted, limit), df |-> ev.df,
           code |-> code, evalRaised |-> ev.raised, path |-> "eval",
           calls |-> <<"translate">>] :
          sorted \in SortValues(Rows(results_df.rows)) }

\* query with a second translation call after an empty candidate
QueryRetry(s, user_query, limit, svc) ==
    LET code == GeneratePandasCode(svc)
        ev   == IF code # <<>> THEN Eval(code, s)
                ELSE [raised |-> FALSE, val |-> None, df |-> s]
        fallback   == code = <<>> \/ ev.raised
        results_df == IF fallback
                        THEN Table(FallbackManualParse(ev.df, user_query))
                        ELSE ev.val
        calls == IF code = <<>> THEN <<"translate", "translate">>
                 ELSE <<"translate">>
    IN  IF results_df.t = "DataFrame"
          THEN { [raised |-> FALSE, rows |-> TailRows(sorted, limit), df |-> ev.df,
                  code |-> code, evalRaised |-> ev.raised,
                  path |-> IF fallback THEN "fallback" ELSE "eval",
                  calls |-> calls] :
                 sorted \in SortValues(Rows(results_df.rows)) }
          ELSE { [raised |-> TRUE, rows |-> <<>>, df |-> ev.df,
                  code |-> code, evalRaised |-> ev.raised, path |-> "eval",
                  calls |-> calls] }

Query(s, user_query, limit, svc) ==
    LET code == GeneratePandasCode(svc)
        ev   == IF code # <<>> THEN Eval(code, s)
                ELSE [raised |-> FALSE, val |-> None, df |-> s]
        fallback   == code = <<>> \/ ev.raised
        results_df == IF fallback
                        THEN Table(FallbackManualParse(ev.df, user_query))
                        ELSE ev.val
    IN  IF results_df.t = "DataFrame"
          THEN { [raised |-> FALSE, rows |-> TailRows(sorted, limit), df |-> ev.df,
                  code |-> code, evalRaised |-> ev.raised,
                  path |-> IF fallback THEN "fallback" ELSE "eval",
                  calls |-> <<"translate">>] :
                 sorted \in SortValues(Rows(results_df.rows)) }
          \* results_df.sort_values raises AttributeError on a non-DataFrame
          ELSE { [raised |-> TRUE, rows |-> <<>>, df |-> ev.df,
                  code |-> code, evalRaised |-> ev.raised, path |-> "eval",
                  calls |-> <<"translate">>] }

(***************************************************************************)
(* PandasAggregationEngine.aggregate                                       *)
(***************************************************************************)
AggregateError == "Error: I couldn't calculate that."

\* [raised, val, df, code, evalRaised, calls]
AggregateZeroOnEmpty(s, user_query, svc) ==
    LET code == GeneratePandasCode(svc)
        ev   == Eval(code, s)
    IN  IF code = <<>>
          THEN [raised |-> FALSE, val |-> IntV(0), df |-> s,
                code |-> code, evalRaised |-> FALSE, calls |-> <<"translate">>]
        ELSE [raised |-> FALSE, df |-> ev.df,
              val |-> IF ev.raised THEN IntV(0) ELSE ev.val,
              code |-> code, evalRaised |-> ev.raised, calls |-> <<"translate">>]

Aggregate(s, user_query, svc) ==
    LET code == GeneratePandasCode(svc)
        ev   == Eval(code, s)
    IN  IF code = <<>>
          THEN [raised |-> FALSE, val |-> None, df |-> s,
                code |-> code, evalRaised |-> FALSE, calls |-> <<"translate">>]
        ELSE IF ev.raised
          THEN [raised |-> FALSE, val |-> StrV(AggregateError), df |-> ev.df,
                code |-> code, evalRaised |-> TRUE, calls |-> <<"translate">>]
        ELSE [raised |-> FALSE, val |-> ev.val, df |-> ev.df,
              code |-> code, evalRaised |-> FALSE, calls |-> <<"translate">>]

(***************************************************************************)
(* TradeAgent._classify_query                                              *)
(***************************************************************************)
LabelRetrieval   == <<"r","e","t","r","i","e","v","a","l">>
LabelAggregation == <<"a","g","g","r","e","g","a","t","i","o","n">>

ClassifierTexts ==
    { LabelRetrieval,
      LabelAggregation,
      <<" ","A","g","g","r","e","g","a","t","i","o","n","\n">>,
      <<"R","E","T","R","I","E","V","A","L">>,
      <<"a","g","g","r","e","g","a","t","i","o","n",".">>,
      <<"a","g","g","r","e"," ","g","a","t","i","o","n">>,
      <<>> }

ClassifierOutcomes == {SvcError} \cup {SvcText(x) : x \in ClassifierTexts}

ClassifyQueryUnchecked(svc) ==
    IF svc.err THEN LabelRetrieval ELSE LowerStr(Strip(svc.text))

ClassifyQuery(svc) ==
    IF svc.err THEN LabelRetrieval
    ELSE LET classification == LowerStr(Strip(svc.text))
         IN  IF classification \in {LabelRetrieval, LabelAggregation}
               THEN classification
               ELSE LabelRetrieval

(***************************************************************************)
(* persona_logic.analyze_trader_persona_with_pandas                        *)
(***************************************************************************)
\* (df['Outcome'] == 'Profit').sum()
CountProfit(s) == Cardinality({i \in 1..Len(s) : s[i].Outcome = "Profit"})

\* (x / n * 100).round(2) in hundredths of a percent, for 0 <= x <= n
Hundredths(x, n) == (20000 * x + n) \div (2 * n)

\* Series.mode()[0]: the most frequent value, the least one on a tie
Mode(values) ==
    LET occ(v) == Cardinality({i \in 1..Len(values) : values[i] = v})
        S    == {values[i] : i \in 1..Len(values)}
        best == {v \in S : \A w \in S : occ(w) <= occ(v)}
    IN  CHOOSE v \in best : \A w \in best \ {v} : StrLess(v, w)

\* value_counts(normalize=True) * 100, rounded: value -> hundredths
Distribution(values) ==
    LET S == {values[i] : i \in 1..Len(values)}
    IN  [v \in S |->
            Hundredths(Cardinality({i \in 1..Len(values) : values[i] = v}),
                       Len(values))]

IsLongTerm(row) == \E j \in 1..Len(row.Tags) : row.Tags[j] = TagLongTerm

\* np.random.randint(1, 7) yields 1..6 and np.random.randint(30, 180) yields
\* 30..179, one draw per row.  The rows' draws are independent integer
\* ranges, so their sum takes every value from the sum of the lower ends to
\* the sum of the upper ends.
HoldingTotals(trades) ==
    LET nl == Cardinality({i \in 1..Len(trades) : IsLongTerm(trades[i])})
        ns == Len(trades) - nl
    IN  (ns * 1 + nl * 30)..(ns * 6 + nl * 179)

\* asset_risk_map, default 3
AssetRisk(a) ==
    IF a \in {BTC, ETH} THEN 1 ELSE IF a = SOL THEN 4 ELSE 3

RECURSIVE SumRisk(_)
SumRisk(trades) ==
    IF trades = <<>> THEN 0 ELSE AssetRisk(trades[1].Asset) + SumRisk(Tail(trades))

TagRiskManagement == <<"R","i","s","k","-","M","a","n","a","g","e","m","e","n","t">>

\* the persona for a non-empty trade list whose holding durations sum to
\* `total`; means and thresholds are compared after multiplying by the
\* number of trades
AnalyzeTraderPersona(trades, total) ==
    LET n       == Len(trades)
        styles  == [i \in 1..n |-> trades[i].Tags[2]]
        strats  == [i \in 1..n |-> trades[i].Tags[1]]
        assets  == [i \in 1..n |-> trades[i].Asset]
        holding_period_type ==
            IF total < 2 * n THEN "Intraday"
            ELSE IF total <= 14 * n THEN "Swing"
            ELSE "Long-term"
        profits == CountProfit(trades)
        \* 2 * n * risk_score
        score2n ==
            2 * SumRisk(trades)
            + (IF \E i \in 1..n : styles[i] = TagSentiment THEN 3 * n ELSE 0)
            - (IF \E i \in 1..n : styles[i] = TagRiskManagement THEN 2 * n ELSE 0)
            + (IF 5 * profits < 2 * n THEN 2 * n ELSE 0)
        risk_appetite ==
            IF score2n < 5 * n THEN "Low"
            ELSE IF score2n <= 8 * n THEN "Medium"
            ELSE "High"
    IN  [ summary_line |-> <<risk_appetite, holding_period_type, Mode(styles)>>,
          risk_appetite |-> risk_appetite,
          holding_period |-> holding_period_type,
          dominant_style |-> Mode(styles),
          style_distribution_percent |-> Distribution(styles),
          favorite_asset |-> Mode(assets),
          total_trades |-> n,
          win_rate_percentage |-> Hundredths(profits, n),
          strategy_distribution_percent |-> Distribution(strats) ]

NoPersona == [error |-> "no agent"]

\* the possible results of analyze_trader_persona_with_pandas(trades_data):
\* the error marker for an empty list, else one persona per outcome of the
\* random holding durations
AnalyzeTraderPersonaWithPandas(trades_data) ==
    IF trades_data = <<>> THEN {[error |-> "No trades to analyze."]}
    ELSE {AnalyzeTraderPersona(trades_data, total) :
            total \in HoldingTotals(trades_data)}

(***************************************************************************)
(* TradeAgent.__init__                                                     *)
(***************************************************************************)
\* the trade files startup may find: the first trades of Pool
FileStores == {SubSeq(Pool, 1, k) : k \in 1..MaxTrades}

\* What startup finds: whether GOOGLE_API_KEY configured a model, the state
\* of the trade file, and the trade list it holds when it can be read.
Envs ==
    { [creds |-> c, file |-> f, trades |-> <<>>] :
        c \in BOOLEAN, f \in {"missing", "unreadable"} }
    \cup
    { [creds |-> c, file |-> "ok", trades |-> t] :
        c \in BOOLEAN, t \in FileStores \cup {<<>>} }

\* the possible outcomes of TradeAgent(trades_filepath): it raises, or it
\* yields an agent with its DataFrame and persona
TradeAgentInitNoChecks(e) ==
    LET t == IF e.trades = <<>> THEN <<Pool[1]>> ELSE e.trades
    IN  { [ok |-> TRUE, df |-> t, persona |-> AnalyzeTraderPersona(t, total)] :
          total \in HoldingTotals(t) }

TradeAgentInit(e) ==
    IF ~e.creds THEN {[ok |-> FALSE]}                   \* ConnectionError
    ELSE IF e.file # "ok" THEN {[ok |-> FALSE]}         \* open / json.load raise
    ELSE IF e.trades = <<>> THEN {[ok |-> FALSE]}       \* KeyError: 'Date'
    ELSE { [ok |-> TRUE, df |-> e.trades,
            persona |-> AnalyzeTraderPersona(e.trades, total)] :
           total \in HoldingTotals(e.trades) }

(***************************************************************************)
(* TradeAgent.generate_response                                            *)
(***************************************************************************)
Apology == "Sorry, I had a moment of brain-freeze. Could you ask me again?"
NoData  == "No data available."

NarrationTexts == {"I mostly trade ETH."}
NarrationOutcomes == {SvcError} \cup {SvcText(x) : x \in NarrationTexts}

\* to_dict('records'): a list of dicts
ListV(rows) == [t |-> "list", rows |-> rows]

\* json.dumps(context_data, indent=2, default=str)
JsonDumps(v) == [json |-> v]

\* the context block of the prompt
ContextBlock(context_data) ==
    IF context_data # None THEN JsonDumps(context_data) ELSE [text |-> NoData]

\* the narration call and the return value of generate_response
NarrateRaises(svc) ==
    IF svc.err THEN [raised |-> TRUE, text |-> ""]
    ELSE [raised |-> FALSE, text |-> svc.text]

Narrate(svc) ==
    IF svc.err THEN [raised |-> FALSE, text |-> Apology]
    ELSE [raised |-> FALSE, text |-> svc.text]

\* which executors run for a classification
RouteBoth(query_type) ==
    IF query_type = LabelAggregation THEN <<"aggregation", "retrieval">>
    ELSE <<"retrieval">>

Route(query_type) ==
    IF query_type = LabelAggregation THEN <<"aggregation">> ELSE <<"retrieval">>

\* the possible outcomes of generate_response(query):
\* [raised, text, df, query_type, execs, calls, context_key, context, block,
\*  failed] where failed lists the service calls that raised
GenerateResponse(s, p, query, cls, trans, narr) ==
    LET query_type == ClassifyQuery(cls)
        execs == Route(query_type)
        failed0 == IF cls.err THEN {"classify"} ELSE {}
        failed1 == failed0 \cup (IF trans.err THEN {"translate"} ELSE {})
        Finish(context_data, context_key, s1, calls) ==
            LET n == Narrate(narr)
            IN  [ raised |-> n.raised, text |-> n.text, df |-> s1,
                  query_type |-> query_type, execs |-> execs,
                  calls |-> Append(calls, "narrate"),
                  context_key |-> context_key, context |-> context_data,
                  block |-> ContextBlock(context_data),
                  failed |-> failed1 \cup (IF narr.err THEN {"narrate"} ELSE {}) ]
        Retrieval(s0, calls) ==
            { IF r.raised
                THEN [ raised |-> TRUE, text |-> "", df |-> r.df,
                       query_type |-> query_type, execs |-> execs,
                       calls |-> calls \o r.calls,
                       context_key |-> "", context |-> None,
                       block |-> [text |-> ""], failed |-> failed1 ]
                ELSE Finish(ListV(r.rows), "RELEVANT TRADE EXAMPLES", r.df,
                            calls \o r.calls) :
              r \in Query(s0, query, DefaultLimit, trans) }
    IN  IF execs = <<"aggregation">>
          THEN LET a == Aggregate(s, query, trans)
               IN  {Finish(a.val, "CALCULATED DATA", a.df, <<"classify">> \o a.calls)}
        ELSE IF execs = <<"retrieval">>
          THEN Retrieval(s, <<"classify">>)
        ELSE LET a == Aggregate(s, query, trans)
             IN  Retrieval(a.df, <<"classify">> \o a.calls)

(***************************************************************************)
(* main.py: startup_event and chat_with_agent                              *)
(***************************************************************************)
NoRequest == [status |-> 0]

\* the possible answers to POST /chat: 503 without an agent, 500 when
\* generate_response raises, 200 with the response text otherwise
ChatWithAgentNoGuard(ag, s, p, query, cls, trans, narr) ==
    { [ status |-> IF g.raised THEN 500 ELSE 200, query |-> query,
        agent_response |-> g.text, df |-> g.df, g |-> g ] :
      g \in GenerateResponse(IF ag THEN s ELSE <<Pool[1]>>, p, query, cls, trans, narr) }

ChatWithAgent(ag, s, p, query, cls, trans, narr) ==
    IF ~ag
      THEN { [status |-> 503, query |-> query, df |-> s] }
      ELSE { [ status |-> IF g.raised THEN 500 ELSE 200, query |-> query,
               agent_response |-> g.text, df |-> g.df, g |-> g ] :
             g \in GenerateResponse(s, p, query, cls, trans, narr) }

\* the requests and service outcomes the endpoint is driven with
ChatQuestions == {W_trades, W_loss, Join(W_ETH, W_sold)}

ChatClassifierOutcomes ==
    { SvcError, SvcText(LabelRetrieval),
      SvcText(<<" ","A","g","g","r","e","g","a","t","i","o","n","\n">>),
      SvcText(<<"a","g","g","r","e","g","a","t","i","o","n",".">>) }

ChatTranslatorOutcomes ==
    { SvcError,
      SvcText(<<BT,BT,BT,"python","\n", E_Profit, "\n",BT,BT,BT>>),
      SvcText(<<BT, E_Profit, BT>>),
      SvcText(<<E_Len>>),
      SvcText(<<" ", E_CountLoss, "\n">>),
      SvcText(<<E_Drop>>) }

Init ==
    /\ env \in Envs
    /\ started = FALSE
    /\ agent = FALSE
    /\ df = <<>>
    /\ persona = NoPersona
    /\ df0 = <<>>
    /\ persona0 = NoPersona
    /\ last = NoRequest
    /\ call = [op |-> "none"]

StartupEvent ==
    /\ ~started
    /\ started' = TRUE
    /\ \E r \in TradeAgentInit(env) :
         IF r.ok
           THEN /\ agent' = TRUE
                /\ df' = r.df
                /\ persona' = r.persona
                /\ df0' = r.df
                /\ persona0' = r.persona
           ELSE /\ agent' = FALSE
                /\ UNCHANGED <<df, persona, df0, persona0>>
    /\ UNCHANGED <<env, last, call>>

Chat ==
    /\ started
    /\ \E query \in ChatQuestions, cls \in ChatClassifierOutcomes,
          trans \in ChatTranslatorOutcomes, narr \in NarrationOutcomes :
         \E r \in ChatWithAgent(agent, df, persona, query, cls, trans, narr) :
            /\ last' = [x \in DOMAIN r \ {"df"} |-> r[x]]
            /\ df' = r.df
    /\ UNCHANGED <<env, started, agent, persona, df0, persona0, call>>

Next == StartupEvent \/ Chat

Spec == Init /\ [][Next]_vars

(***************************************************************************)
(* The engines and the classifier called directly: every question, limit,  *)
(* store and service outcome.                                              *)
(***************************************************************************)
Limits == (-1)..MaxLimit \cup {DefaultLimit}

InitEngine ==
    /\ env = [creds |-> TRUE, file |-> "ok", trades |-> <<>>]
    /\ started = FALSE
    /\ agent = FALSE
    /\ df \in Stores
    /\ persona = NoPersona
    /\ df0 = df
    /\ persona0 = NoPersona
    /\ last = NoRequest
    /\ call = [op |-> "none"]

\* PandasQueryEngine(df).query(q, limit)
QueryCall ==
    /\ call.op = "none"
    /\ \E q \in Questions, limit \in Limits, svc \in TranslatorOutcomes :
         \E r \in Query(df, q, limit, svc) :
            /\ call' = [op |-> "query", q |-> q, limit |-> limit, svc |-> svc,
                        pre |-> df, out |-> r]
            /\ df' = r.df
    /\ UNCHANGED <<env, started, agent, persona, df0, persona0, last>>

\* PandasAggregationEngine(df).aggregate(q)
AggregateCall ==
    /\ call.op = "none"
    /\ \E q \in Questions, svc \in TranslatorOutcomes :
         LET r == Aggregate(df, q, svc)
         IN  /\ call' = [op |-> "aggregate", q |-> q, svc |-> svc,
                         pre |-> df, out |-> r]
             /\ df' = r.df
    /\ UNCHANGED <<env, started, agent, persona, df0, persona0, last>>

\* _fallback_manual_parse on two questions over the same store
FallbackCall ==
    /\ call.op = "none"
    /\ \E q1 \in Questions, q2 \in Questions :
         call' = [op |-> "fallback", q |-> q1, q2 |-> q2, pre |-> df,
                  masks |-> FallbackMasks(df, q1),
                  out |-> FallbackManualParse(df, q1),
                  out2 |-> FallbackManualParse(df, q2)]
    /\ UNCHANGED <<env, started, agent, df, persona, df0, persona0, last>>

\* _classify_query
ClassifyCall ==
    /\ call.op = "none"
    /\ \E q \in Questions, svc \in ClassifierOutcomes :
         call' = [op |-> "classify", q |-> q, svc |-> svc, pre |-> df,
                  out |-> ClassifyQuery(svc)]
    /\ UNCHANGED <<env, started, agent, df, persona, df0, persona0, last>>

\* analyze_trader_persona_with_pandas called twice on the same trade list
PersonaCall ==
    /\ call.op = "none"
    /\ \E p1 \in AnalyzeTraderPersonaWithPandas(df),
          p2 \in AnalyzeTraderPersonaWithPandas(df) :
         call' = [op |-> "persona", pre |-> df, out |-> p1, out2 |-> p2]
    /\ UNCHANGED <<env, started, agent, df, persona, df0, persona0, last>>

\* the caller takes the result; the engine is ready for the next call
Return ==
    /\ call.op # "none"
    /\ call' = [op |-> "none"]
    /\ UNCHANGED <<env, started, agent, df, persona, df0, persona0, last>>

NextEngine ==
    QueryCall \/ AggregateCall \/ FallbackCall \/ ClassifyCall \/ PersonaCall
    \/ Return

SpecEngine == InitEngine /\ [][NextEngine]_vars

(***************************************************************************)
(* Properties                                                              *)
(***************************************************************************)
Answered == agent /\ last.status \in {200, 500}

IsSortedByDate(rows) ==
    \A i \in 1..Len(rows), j \in 1..Len(rows) :
        i < j => rows[i].Date <= rows[j].Date

Min(a, b) == IF a <= b THEN a ELSE b

\* C1: once a TradeAgent exists, generate_response never raises to its
\* caller: every request the agent handles ends with a returned string.
C1_GenerateResponseNeverRaises ==
    Answered => ~last.g.raised

\* C2: _classify_query returns exactly one of the two labels; it returns
\* the trimmed, lowercased reply only when that reply is one of the labels,
\* and retrieval for every other reply and for every service error.
C2_ClassifierTotal ==
    call.op = "classify" =>
        LET reply == IF call.svc.err THEN <<>> ELSE LowerStr(Strip(call.svc.text))
        IN  /\ call.out \in {LabelRetrieval, LabelAggregation}
            /\ call.svc.err => call.out = LabelRetrieval
            /\ reply \in {LabelRetrieval, LabelAggregation} => call.out = reply
            /\ reply \notin {LabelRetrieval, LabelAggregation}
                  => call.out = LabelRetrieval

\* a padded, capitalised reply is accepted as aggregation
C2_Witness ==
    /\ call.op = "classify"
    /\ ~call.svc.err
    /\ call.svc.text = <<" ","A","g","g","r","e","g","a","t","i","o","n","\n">>
    /\ call.out = LabelAggregation

\* C3: for each question exactly one executor runs: the aggregation
\* executor if and only if the classifier returned aggregation, the
\* retrieval executor otherwise, also when the classification call failed.
C3_ExactlyOneExecutor ==
    Answered =>
        /\ Len(last.g.execs) = 1
        /\ last.g.execs = <<"aggregation">> <=> last.g.query_type = LabelAggregation
        /\ last.g.execs = <<"retrieval">> <=> last.g.query_type # LabelAggregation
        /\ "classify" \in last.g.failed => last.g.execs = <<"retrieval">>

C3_Witness ==
    /\ Answered
    /\ last.status = 200
    /\ last.g.execs = <<"aggregation">>
    /\ last.g.context_key = "CALCULATED DATA"

\* C4: in query, when the candidate is empty (also after a failed
\* translation call) or evaluating it raises, the returned trades are the
\* keyword fallback's output for the same question and store, sorted by
\* Date and cut to the last `limit`; no evaluator result is returned.
C4_FallbackOnFailure ==
    (call.op = "query" /\ (call.out.code = <<>> \/ call.out.evalRaised)) =>
        LET F == FallbackManualParse(call.pre, call.q)
            r == call.out.rows
        IN  /\ call.svc.err => call.out.code = <<>>
            /\ ~call.out.raised
            /\ call.out.path = "fallback"
            /\ r \in {TailRows(x, call.limit) : x \in SortValues(Rows(F))}
            /\ Rows(r) \subseteq Rows(F)
            /\ IsSortedByDate(r)
            /\ call.limit >= 0 =>
                 /\ Len(r) = Min(call.limit, Len(F))
                 /\ \A x \in Rows(F) \ Rows(r), y \in Rows(r) : x.Date <= y.Date

\* a candidate that raises, and a fallback that differs from every
\* evaluator result and is cut to the limit
C4_Witness ==
    /\ call.op = "query"
    /\ call.out.evalRaised
    /\ call.limit = 1
    /\ Len(FallbackManualParse(call.pre, call.q)) = 2
    /\ Len(call.out.rows) = 1
    /\ call.out.rows[1].Outcome = "Loss"

\* C5 as stated: for every question, store and value of limit, the sequence
\* query returns has at most `limit` items, in ascending Date order.
C5_BoundedSortedAnyLimit ==
    (call.op = "query" /\ ~call.out.raised) =>
        /\ Len(call.out.rows) <= call.limit
        /\ IsSortedByDate(call.out.rows)

\* C5 amended: the same for every limit >= 0.
C5_BoundedSorted ==
    (call.op = "query" /\ ~call.out.raised /\ call.limit >= 0) =>
        /\ Len(call.out.rows) <= call.limit
        /\ IsSortedByDate(call.out.rows)

\* an evaluator result of two trades cut to the limit 1
C5_Witness ==
    /\ call.op = "query"
    /\ ~call.out.raised
    /\ call.out.path = "eval"
    /\ call.limit = 1
    /\ Len(Eval(call.out.code, call.pre).val.rows) = 2
    /\ Len(call.out.rows) = 1

\* the keyword categories a question matches over a store
OutcomeGroups(q) ==
    {g \in {"Loss", "Profit", "Neutral"} :
        \/ g = "Loss" /\ (Contains(K_loss, q) \/ Contains(K_lost, q))
        \/ g = "Profit" /\ (Contains(K_profit, q) \/ Contains(K_win, q)
                             \/ Contains(K_won, q))
        \/ g = "Neutral" /\ Contains(K_neutral, q)}

SideGroups(q) ==
    {g \in {"Buy", "Sell"} :
        \/ g = "Buy" /\ (Contains(K_buy, q) \/ Contains(K_bought, q))
        \/ g = "Sell" /\ (Contains(K_sell, q) \/ Contains(K_sold, q))}

Categories(s, user_query) ==
    LET q == LowerStr(user_query)
    IN  {c \in {"asset", "outcome", "side", "tag"} :
            \/ c = "asset" /\ AssetsInQuery(s, q) # {}
            \/ c = "outcome" /\ OutcomeGroups(q) # {}
            \/ c = "side" /\ SideGroups(q) # {}
            \/ c = "tag" /\ TagsInQuery(s, q) # {}}

IsPrefix(a, b) == Len(a) <= Len(b) /\ SubSeq(b, 1, Len(a)) = a

\* C6 as stated, for a second question that is the first one with more
\* words appended: when the second matches every keyword category the
\* first matches plus one more, its fallback result is a subset of the
\* first's.
C6_MoreCategoriesNarrow ==
    call.op = "fallback" =>
        LET c1 == Categories(call.pre, call.q)
            c2 == Categories(call.pre, call.q2)
        IN  (/\ IsPrefix(call.q, call.q2)
             /\ c1 \subseteq c2
             /\ Cardinality(c2) = Cardinality(c1) + 1)
            => Rows(call.out2) \subseteq Rows(call.out)

\* C6 amended: every applied step keeps a subset of the previous mask; and
\* when the second question matches the same asset symbols and the same
\* tag values as the first (or the first matches none of that kind) and at
\* least the first's outcome and side keyword groups, its fallback result
\* is a subset of the first's.
C6_StepsNarrow ==
    call.op = "fallback" =>
        LET q1 == LowerStr(call.q)
            q2 == LowerStr(call.q2)
            a1 == AssetsInQuery(call.pre, q1)
            t1 == TagsInQuery(call.pre, q1)
        IN  /\ \A i \in 1..7 : call.masks[i + 1] \subseteq call.masks[i]
            /\ Rows(call.out) = {call.pre[i] : i \in call.masks[8]}
            /\ (/\ a1 = {} \/ AssetsInQuery(call.pre, q2) = a1
                /\ t1 = {} \/ TagsInQuery(call.pre, q2) = t1
                /\ OutcomeGroups(q1) \subseteq OutcomeGroups(q2)
                /\ SideGroups(q1) \subseteq SideGroups(q2))
               => Rows(call.out2) \subseteq Rows(call.out)

\* adding the outcome keyword to an asset question strictly narrows
C6_Witness ==
    /\ call.op = "fallback"
    /\ call.q = W_ETH
    /\ call.q2 = Join(W_ETH, W_loss)
    /\ Len(call.out) = 2
    /\ Len(call.out2) = 1
    /\ Rows(call.out2) \subseteq Rows(call.out)

\* C7: aggregate never raises and has no fallback: an empty candidate (also
\* after a failed translation call) gives None, which is not a computed 0;
\* a candidate whose evaluation raises gives the fixed failure string;
\* otherwise the evaluated value is returned unchanged.
C7_AggregateOutcomes ==
    call.op = "aggregate" =>
        LET candidate == IF call.svc.err THEN <<>>
                         ELSE Strip(SelectSeq(call.svc.text, LAMBDA x : x # BT))
            out == call.out
        IN  /\ ~out.raised
            /\ out.code = candidate
            /\ candidate = <<>> => out.val = None /\ out.val # IntV(0)
            /\ (candidate # <<>> /\ out.evalRaised)
                  => out.val = StrV("Error: I couldn't calculate that.")
            /\ (candidate # <<>> /\ ~out.evalRaised)
                  => out.val = Eval(candidate, call.pre).val
            /\ candidate # <<>> => out.evalRaised = Eval(candidate, call.pre).raised

\* a failed translation call gives None; a count over a store without
\* losses gives the computed 0
C7_Witness ==
    /\ call.op = "aggregate"
    /\ call.svc.err
    /\ call.out.val = None

C7_WitnessZero ==
    /\ call.op = "aggregate"
    /\ call.out.code = <<E_CountLoss>>
    /\ call.out.val = IntV(0)

\* C8: when the narration call fails, generate_response returns the fixed
\* apology string and /chat answers 200 carrying it.
C8_NarrationFailure ==
    (Answered /\ "narrate" \in last.g.failed) =>
        /\ ~last.g.raised
        /\ last.g.text = "Sorry, I had a moment of brain-freeze. Could you ask me again?"
        /\ last.status = 200
        /\ last.agent_response = last.g.text

C8_Witness ==
    /\ Answered
    /\ last.g.calls = <<"classify", "translate", "narrate">>
    /\ "narrate" \in last.g.failed
    /\ last.status = 200

\* C9: without credentials, or with the trade file missing or unreadable,
\* no agent exists after startup, every /chat request is answered 503
\* without any service call, and the agent never becomes available.
C9_InitFailureIsFinal ==
    (started /\ (~env.creds \/ env.file # "ok")) =>
        /\ ~agent
        /\ last.status \in {0, 503}
        /\ "g" \notin DOMAIN last

C9_Witness ==
    /\ started
    /\ env.creds
    /\ env.file = "missing"
    /\ ~agent
    /\ last.status = 503

\* C10: after initialization the Trade Store and the Persona Profile are
\* never modified: whatever the questions, classifier replies and
\* candidate expressions, both equal their values at the end of __init__.
C10_StoreAndPersonaReadOnly ==
    agent => df = df0 /\ persona = persona0

\* C11: building the Persona Profile twice on the same non-empty list of
\* trades yields identical output in every field, holding_period and
\* summary_line included.
C11_PersonaDeterministic ==
    (call.op = "persona" /\ call.pre # <<>>) => call.out = call.out2

\* C12: in the fallback filter every returned trade has the Outcome of each
\* outcome keyword group the question matches (loss or lost: Loss; profit,
\* win or won: Profit; neutral: Neutral); a question matching two different
\* groups returns no trades; and when no asset, side or tag keyword
\* matches, the result is exactly the trades with the named outcome, in
\* store order.
C12_OutcomeConjunctive ==
    call.op = "fallback" =>
        LET G == OutcomeGroups(LowerStr(call.q))
        IN  /\ \A g \in G : \A i \in 1..Len(call.out) : call.out[i].Outcome = g
            /\ Cardinality(G) >= 2 => call.out = <<>>
            /\ \A g \in G :
                 (G = {g} /\ Categories(call.pre, call.q) = {"outcome"})
                 => call.out = SelectRows(call.pre,
                        {i \in 1..Len(call.pre) : call.pre[i].Outcome = g})

\* the losses question over a Loss trade followed by a BTC Profit trade
\* returns exactly the Loss trade
C12_Witness ==
    /\ call.op = "fallback"
    /\ call.q = W_losses
    /\ call.pre = <<Pool[2], Pool[5]>>
    /\ call.out = <<Pool[2]>>

RowTags(row) == {row.Tags[j] : j \in 1..Len(row.Tags)}

\* C13 as stated: in the fallback filter, for each tag value that appears
\* in the question (lower-cased, hyphens read as spaces), every returned
\* trade carries that tag, also when several different tags are matched.
C13_EachMatchedTag ==
    call.op = "fallback" =>
        \A t \in TagsInQuery(call.pre, LowerStr(call.q)) :
            \A i \in 1..Len(call.out) : t \in RowTags(call.out[i])

\* C13 amended: when the question matches tag values, every returned trade
\* carries at least one of the matched tags (so the only matched tag when
\* there is one), and when no asset, outcome or side keyword matches, the
\* result is exactly the trades carrying at least one matched tag.
C13_SomeMatchedTag ==
    call.op = "fallback" =>
        LET T == TagsInQuery(call.pre, LowerStr(call.q))
        IN  T # {} =>
              /\ \A i \in 1..Len(call.out) : RowTags(call.out[i]) \cap T # {}
              /\ \A t \in T : T = {t} =>
                    \A i \in 1..Len(call.out) : t \in RowTags(call.out[i])
              /\ Categories(call.pre, call.q) = {"tag"} =>
                    call.out = SelectRows(call.pre,
                        {i \in 1..Len(call.pre) : RowTags(call.pre[i]) \cap T # {}})

\* a question naming two tags returns a trade that carries only one of them,
\* and leaves out the trade that carries neither
C13_Witness ==
    /\ call.op = "fallback"
    /\ call.q = Join(W_value, W_longterm)
    /\ call.pre = <<Pool[1], Pool[2], Pool[3]>>
    /\ TagsInQuery(call.pre, LowerStr(call.q)) = {TagValue, TagLongTerm}
    /\ call.out = <<Pool[1], Pool[3]>>

\* the matching trades of a query call: the fallback output, or the table
\* the candidate evaluated to
HasMatches ==
    /\ call.op = "query"
    /\ \/ call.out.path = "fallback"
       \/ Eval(call.out.code, call.pre).val.t = "DataFrame"

Matches ==
    IF call.out.path = "fallback"
        THEN FallbackManualParse(call.pre, call.q)
        ELSE Eval(call.out.code, call.pre).val.rows

MostRecent(M, r, limit) ==
    /\ Len(r) = Min(limit, Len(M))
    /\ Cardinality(Rows(r)) = Len(r)
    /\ Rows(r) \subseteq Rows(M)
    /\ \A x \in Rows(M) \ Rows(r), y \in Rows(r) : x.Date <= y.Date
    /\ M = <<>> => r = <<>>

\* C14 as stated: for every value of limit, with M the matching trades,
\* query returns exactly min(limit, |M|) trades of M, no trade of M left
\* out is later than a returned one, and an empty M gives the empty
\* sequence, returned normally.
C14_MostRecentAnyLimit ==
    HasMatches =>
        /\ ~call.out.raised
        /\ MostRecent(Matches, call.out.rows, call.limit)

\* C14 amended: the same for every limit >= 0.
C14_MostRecent ==
    (HasMatches /\ call.limit >= 0) =>
        /\ ~call.out.raised
        /\ MostRecent(Matches, call.out.rows, call.limit)

\* of two matching trades with different dates the limit 1 keeps the later
C14_Witness ==
    /\ call.op = "query"
    /\ call.svc = SvcError
    /\ call.q = W_ETH
    /\ call.limit = 1
    /\ call.pre = <<Pool[1], Pool[3]>>
    /\ call.out.rows = <<Pool[3]>>

\* C15: when generate_response composes the narrative prompt, the context
\* block is the explicit no-data text whenever the context is absent (the
\* aggregation result None) or empty (a retrieval result of no trades), and
\* any other context, a computed 0 included, is serialized as data.
C15_NoDataWhenEmptyOrAbsent ==
    (Answered /\ ~last.g.raised) =>
        IF last.g.context = None \/ last.g.context = ListV(<<>>)
            THEN last.g.block = [text |-> NoData]
            ELSE last.g.block = JsonDumps(last.g.context)

Times(c, x) == Cardinality({i \in 1..Len(c) : c[i] = x})

\* C16: within one request the service calls are made in the order
\* classification, translation, narration, each at most once: the
\* classification call is over before the translation call, the executor
\* has produced its context (evaluated, fallback or failure value) before
\* the narration call, and a failed call is followed by the fallback or
\* the degraded response, never by a second attempt.
C16_CallsOrderedOnce ==
    Answered =>
        LET c == last.g.calls
        IN  /\ \A x \in {"classify", "translate", "narrate"} : Times(c, x) <= 1
            /\ Rows(c) \subseteq {"classify", "translate", "narrate"}
            /\ \A i \in 1..Len(c), j \in 1..Len(c) :
                 /\ (c[i] = "classify" /\ c[j] = "translate") => i < j
                 /\ (c[i] = "translate" /\ c[j] = "narrate") => i < j
            /\ \A x \in last.g.failed : Times(c, x) = 1
            /\ "narrate" \in Rows(c) =>
                 /\ c[Len(c)] = "narrate"
                 /\ last.g.context_key \in {"CALCULATED DATA", "RELEVANT TRADE EXAMPLES"}
                 /\ last.g.block = ContextBlock(last.g.context)
            /\ "translate" \in last.g.failed =>
                 \/ last.g.execs = <<"retrieval">> /\ last.g.context.t = "list"
                 \/ last.g.execs = <<"aggregation">> /\ last.g.context = None

\* a failed translation call is followed by the fallback result and one
\* successful narration call
C16_Witness ==
    /\ Answered
    /\ last.g.failed = {"translate"}
    /\ last.g.execs = <<"retrieval">>
    /\ last.g.calls = <<"classify", "translate", "narrate">>
    /\ last.g.context.t = "list"
    /\ last.g.context.rows # <<>>
    /\ last.g.text # Apology

====
